---- MODULE Spec2Model ----
(***************************************************************************)
(* Stoichiometric calculators of the repository:                           *)
(*   main.py                     HTTP handler calcular_estequiometria      *)
(*   estequiometricos.py         console loop with calcular                *)
(*   calculo_estequiometrico.py  console script with explicit coefficients *)
(*   app_estequiometria_tk.py, estequiometria_explica.py  desktop forms    *)
(*                                                                         *)
(* Python strings are sequences of one-character strings.  Python floats   *)
(* are modelled by exact rationals [n, d] in lowest terms with d > 0.      *)
(***************************************************************************)
EXTENDS Integers, Sequences, FiniteSets, TLC

\* ------------------------------------------------------------------ bounds

\* Largest stoichiometric coefficient the balancer search tries.
MaxCoef == 6

\* Longest chain of conversions fed back into the calculator.
MaxChain == 2

\* Most events of the desktop form that write to its output panel.
MaxEventos == 2

\* ------------------------------------------------------------- rationals

Abs(x) == IF x < 0 THEN -x ELSE x

RECURSIVE GCD(_, _)
GCD(a, b) == IF b = 0 THEN Abs(a) ELSE GCD(b, a % b)

\* The rational n/d in lowest terms, d > 0 (d # 0 required).
Rat(n, d) ==
    LET g == GCD(Abs(n), Abs(d))
        s == IF d < 0 THEN -1 ELSE 1
    IN  [n |-> s * (n \div g), d |-> s * (d \div g)]

RInt(k) == [n |-> k, d |-> 1]

\* Product, cross-reduced before multiplying to keep the integers small.
RMul(x, y) ==
    LET a == Rat(x.n, y.d)
        b == Rat(y.n, x.d)
    IN  Rat(a.n * b.n, a.d * b.d)

\* Quotient x / y for y # 0.
RDiv(x, y) == RMul(x, Rat(y.d, y.n))

RIsZero(x) == x.n = 0
RPos(x) == x.n > 0

\* ------------------------------------------------------- Python strings

Digits == {"0", "1", "2", "3", "4", "5", "6", "7", "8", "9"}

DigitVal(c) ==
    CASE c = "0" -> 0 [] c = "1" -> 1 [] c = "2" -> 2 [] c = "3" -> 3
      [] c = "4" -> 4 [] c = "5" -> 5 [] c = "6" -> 6 [] c = "7" -> 7
      [] c = "8" -> 8 [] c = "9" -> 9

\* str.strip(): leading and trailing blanks removed.
RECURSIVE LStrip(_)
LStrip(s) == IF s # <<>> /\ Head(s) = " " THEN LStrip(Tail(s)) ELSE s

RECURSIVE RStrip(_)
RStrip(s) ==
    IF s # <<>> /\ s[Len(s)] = " " THEN RStrip(SubSeq(s, 1, Len(s) - 1)) ELSE s

strip(s) == RStrip(LStrip(s))

\* str.replace(",", ".")
replace_comma(s) == [i \in 1..Len(s) |-> IF s[i] = "," THEN "." ELSE s[i]]

\* str.split(sep): the pieces of s between the occurrences of sep.
RECURSIVE SplitFrom(_, _, _, _)
SplitFrom(s, sep, start, i) ==
    IF i + Len(sep) - 1 > Len(s)
    THEN <<SubSeq(s, start, Len(s))>>
    ELSE IF SubSeq(s, i, i + Len(sep) - 1) = sep
         THEN <<SubSeq(s, start, i - 1)>>
              \o SplitFrom(s, sep, i + Len(sep), i + Len(sep))
         ELSE SplitFrom(s, sep, start, i + 1)

split(s, sep) == SplitFrom(s, sep, 1, 1)

\* Value of a run of decimal digits.
RECURSIVE DigitsVal(_)
DigitsVal(s) ==
    IF s = <<>> THEN 0 ELSE 10 * DigitsVal(SubSeq(s, 1, Len(s) - 1)) + DigitVal(s[Len(s)])

RECURSIVE Pow10(_)
Pow10(k) == IF k = 0 THEN 1 ELSE 10 * Pow10(k - 1)

AllDigits(s) == \A i \in 1..Len(s) : s[i] \in Digits

\* float(text): blanks around the number are ignored, then an optional sign,
\* digits, and at most one "." with digits on at least one side.  Anything
\* else raises ValueError.
float(text) ==
    LET t    == strip(text)
        neg  == t # <<>> /\ Head(t) = "-"
        sgn  == t # <<>> /\ Head(t) \in {"-", "+"}
        u    == IF sgn THEN Tail(t) ELSE t
        dots == {i \in 1..Len(u) : u[i] = "."}
        ip   == IF dots = {} THEN u
                ELSE SubSeq(u, 1, (CHOOSE i \in dots : TRUE) - 1)
        fp   == IF dots = {} THEN <<>>
                ELSE SubSeq(u, (CHOOSE i \in dots : TRUE) + 1, Len(u))
        good == /\ Cardinality(dots) <= 1
                /\ AllDigits(ip) /\ AllDigits(fp)
                /\ Len(ip) + Len(fp) > 0
        mag  == Rat(DigitsVal(ip) * Pow10(Len(fp)) + DigitsVal(fp), Pow10(Len(fp)))
    IN  IF good
        THEN [ok |-> TRUE, val |-> IF neg THEN Rat(-mag.n, mag.d) ELSE mag]
        ELSE [ok |-> FALSE, val |-> RInt(0)]

\* ------------------------------------------------------------- chemistry

Elements == {"H", "O", "N", "C"}

\* Standard atomic masses in thousandths of g/mol.
AtomicMilli(e) ==
    CASE e = "H" -> 1008 [] e = "O" -> 15999 [] e = "N" -> 14007 [] e = "C" -> 12011

NoAtoms == [e \in Elements |-> 0]

\* End of the run of digits of s that starts at position i.
RECURSIVE DigitsEnd(_, _)
DigitsEnd(s, i) ==
    IF i <= Len(s) /\ s[i] \in Digits THEN DigitsEnd(s, i + 1) ELSE i

\* Condensed formula notation: element symbols, each followed by an optional
\* count.  Yields the element -> atom count breakdown, or no parse.
RECURSIVE ParseFrom(_, _, _)
ParseFrom(s, i, acc) ==
    IF i > Len(s) THEN [ok |-> TRUE, atoms |-> acc]
    ELSE IF s[i] \notin Elements THEN [ok |-> FALSE, atoms |-> NoAtoms]
    ELSE LET j == DigitsEnd(s, i + 1)
             k == IF j = i + 1 THEN 1 ELSE DigitsVal(SubSeq(s, i + 1, j - 1))
         IN  ParseFrom(s, j, [acc EXCEPT ![s[i]] = @ + k])

parse_formula(s) == ParseFrom(s, 1, NoAtoms)

RECURSIVE SumOver(_, _)
SumOver(S, f) ==
    IF S = {} THEN 0
    ELSE LET x == CHOOSE y \in S : TRUE IN f[x] + SumOver(S \ {x}, f)

\* Sum of count x atomic mass over the elements, in g/mol.
MassOf(atoms) ==
    Rat(SumOver(Elements, [e \in Elements |-> atoms[e] * AtomicMilli(e)]), 1000)

\* Exceptions are records: the class, the message text and its argument.
Exc(type, text, arg) == [type |-> type, text |-> text, arg |-> arg]

\* str(e): the message alone; str(KeyError(k)) is repr(k).
str(e) ==
    IF e.type = "KeyError" THEN [text |-> "'%s'", arg |-> e.arg]
    ELSE [text |-> e.text, arg |-> e.arg]

\* periodictable.formula(compuesto).mass: the empty string is the empty
\* formula, whose mass is 0; an unparsable string raises.
periodictable_mass(compuesto) ==
    LET p == parse_formula(compuesto)
    IN  IF p.ok THEN [ok |-> TRUE, mass |-> MassOf(p.atoms)]
        ELSE [ok |-> FALSE,
              exc |-> Exc("ValueError", "unable to parse formula", compuesto)]

\* chempy Substance.from_formula(compuesto): an empty or unparsable formula
\* raises ParseException.
Substance_from_formula(compuesto) ==
    LET p == parse_formula(compuesto)
    IN  IF p.ok /\ compuesto # <<>>
        THEN [ok |-> TRUE, atoms |-> p.atoms, mass |-> MassOf(p.atoms)]
        ELSE [ok |-> FALSE,
              exc |-> Exc("ParseException", "Expected formula", compuesto)]

AtomsOf(f) == parse_formula(f).atoms

\* Element e on one side: coefficient-weighted atom count.
SideAtoms(side, c, atoms, e) == SumOver(side, [f \in side |-> c[f] * atoms[f][e]])

Conserves(R, P, c, atoms, els) ==
    \A e \in els : SideAtoms(R, c, atoms, e) = SideAtoms(P, c, atoms, e)

RECURSIVE GCDSet(_, _)
GCDSet(S, c) ==
    IF S = {} THEN 0
    ELSE LET x == CHOOSE y \in S : TRUE IN GCD(c[x], GCDSet(S \ {x}, c))

PresentIn(side, e) == \E f \in side : AtomsOf(f)[e] > 0

\* Formulas the calculators are given.
tH2 == <<"H", "2">>
tO2 == <<"O", "2">>
tH2O == <<"H", "2", "O">>
tN2 == <<"N", "2">>
tNH3 == <<"N", "H", "3">>
tCO2 == <<"C", "O", "2">>
tXx == <<"X", "x">>
tVacio == <<>>

\* Equations offered to the calculators, as (reactants, products): three that
\* balance (one read in both directions), one with an element on one side
\* only, one with an unparsable formula, one with a substance on both sides.
Ecuaciones ==
    { <<{tH2, tO2}, {tH2O}>>,
      <<{tH2O}, {tH2, tO2}>>,
      <<{tN2, tH2}, {tNH3}>>,
      <<{tNH3, tO2}, {tN2, tH2O}>>,
      <<{tH2}, {tH2O}>>,
      <<{tXx, tO2}, {tH2O}>>,
      <<{tH2, tO2}, {tH2, tH2O}>> }

\* chempy.chemistry.balance_stoichiometry(reactants, products): the minimal
\* positive integer coefficients conserving every element, as two mappings;
\* raises when a substance is on both sides, a formula does not parse, an
\* element is on one side only, or no positive solution exists.
balance_stoichiometry_solve(R, P) ==
    IF R \cap P # {}
    THEN [ok |-> FALSE, exc |-> Exc("ValueError", "Substances on both sides", <<>>)]
    ELSE IF \E f \in R \cup P : ~Substance_from_formula(f).ok
    THEN [ok |-> FALSE,
          exc |-> Substance_from_formula(
                      CHOOSE f \in R \cup P : ~Substance_from_formula(f).ok).exc]
    ELSE IF \E e \in Elements : PresentIn(R, e) # PresentIn(P, e)
    THEN [ok |-> FALSE,
          exc |-> Exc("ValueError", "Component not among reactants or products", <<>>)]
    ELSE LET atoms == [f \in R \cup P |-> AtomsOf(f)]
             els   == {e \in Elements : PresentIn(R, e)}
             sols  == {c \in [R \cup P -> 1..MaxCoef] :
                           Conserves(R, P, c, atoms, els) /\ GCDSet(R \cup P, c) = 1}
         IN  IF sols = {}
             THEN [ok |-> FALSE,
                   exc |-> Exc("ValueError", "Unable to balance stoichiometry", <<>>)]
             ELSE LET c == CHOOSE x \in sols : TRUE
                  IN  [ok |-> TRUE,
                       reac |-> [f \in R |-> c[f]],
                       prod |-> [f \in P |-> c[f]]]

\* The balancing of each equation of Ecuaciones, computed once.
Balanceadas == [e \in Ecuaciones |-> balance_stoichiometry_solve(e[1], e[2])]

\* balance_stoichiometry(reactants, products) as the handlers call it; the
\* equations they are given are those of Ecuaciones.
balance_stoichiometry(R, P) == Balanceadas[<<R, P>>]

\* ---------------------------------------------------------- Python values

\* None, and the result of dict.get: a value or None.
None == [some |-> FALSE, val |-> 0]
Some(v) == [some |-> TRUE, val |-> v]

\* A call ended by returning ret (the empty record is None) or by raising
\* exc.  locals holds the variables the body had assigned, printed the lines
\* written to the console, data the caller's argument as the call left it.
Returned(ret, locals, printed, data) ==
    [raised |-> FALSE, ret |-> ret, exc |-> Exc("", "", <<>>),
     locals |-> locals, printed |-> printed, data |-> data]

Raised(exc, locals, printed, data) ==
    [raised |-> TRUE, ret |-> <<>>, exc |-> exc,
     locals |-> locals, printed |-> printed, data |-> data]

NoLocals == <<>>

\* ------------------------------------------------------- main.py (HTTP)

\* The handler taking the request's own coefficients as the balanced equation.
http_balanceo_dados(data) ==
    [ok |-> TRUE, reac |-> data.reactivos, prod |-> data.productos]

\* reac, prod = balance_stoichiometry(set(reactivos.keys()), set(productos.keys()))
http_balanceo(data) ==
    balance_stoichiometry(DOMAIN data.reactivos, DOMAIN data.productos)

\* masas[compuesto] for every compound of the balanced equation
http_masas(reac, prod) ==
    [c \in (DOMAIN reac) \cup (DOMAIN prod) |-> Substance_from_formula(c).mass]

\* moles_dado = data.masa_dada / masas[data.compuesto_dado]
http_moles_dado(data, masas) ==
    IF data.compuesto_dado \in DOMAIN masas
    THEN [ok |-> TRUE, val |-> RDiv(data.masa_dada, masas[data.compuesto_dado])]
    ELSE [ok |-> FALSE, exc |-> Exc("KeyError", "", data.compuesto_dado)]

\* reac.get(c, prod.get(c))
http_coef(reac, prod, c) ==
    IF c \in DOMAIN reac THEN Some(reac[c])
    ELSE IF c \in DOMAIN prod THEN Some(prod[c]) ELSE None

\* The ratio of the coefficients taken with floor division (//).
http_moles_objetivo_floor(moles_dado, coef_objetivo, coef_dado) ==
    IF ~coef_objetivo.some \/ ~coef_dado.some
    THEN [ok |-> FALSE,
          exc |-> Exc("TypeError", "unsupported operand type(s) for //", <<>>)]
    ELSE IF coef_dado.val = 0
    THEN [ok |-> FALSE, exc |-> Exc("ZeroDivisionError", "division by zero", <<>>)]
    ELSE [ok |-> TRUE, val |-> RMul(moles_dado, RInt(coef_objetivo.val \div coef_dado.val))]

\* moles_objetivo = moles_dado * (coef_objetivo / coef_dado)
http_moles_objetivo(moles_dado, coef_objetivo, coef_dado) ==
    IF ~coef_objetivo.some \/ ~coef_dado.some
    THEN [ok |-> FALSE,
          exc |-> Exc("TypeError", "unsupported operand type(s) for /", <<>>)]
    ELSE IF coef_dado.val = 0
    THEN [ok |-> FALSE, exc |-> Exc("ZeroDivisionError", "division by zero", <<>>)]
    ELSE [ok |-> TRUE, val |-> RMul(moles_dado, Rat(coef_objetivo.val, coef_dado.val))]

\* The target's moles multiplied by the molar mass of the known compound.
http_masa_objetivo_dado(moles_objetivo, masas, data) ==
    RMul(moles_objetivo, masas[data.compuesto_dado])

\* masa_objetivo = moles_objetivo * masas[data.compuesto_objetivo]
http_masa_objetivo(moles_objetivo, masas, data) ==
    RMul(moles_objetivo, masas[data.compuesto_objetivo])

\* The dict returned on success with every coefficient of the equation 1.
http_respuesta_unos(moles_objetivo, masa_objetivo, masas, reac, prod) ==
    [moles_objetivo |-> moles_objetivo,
     masa_objetivo |-> masa_objetivo,
     masas_molares |-> masas,
     ecuacion_balanceada |-> [reactivos |-> [f \in DOMAIN reac |-> 1],
                              productos |-> [f \in DOMAIN prod |-> 1]]]

\* the dict returned on success
http_respuesta(moles_objetivo, masa_objetivo, masas, reac, prod) ==
    [moles_objetivo |-> moles_objetivo,
     masa_objetivo |-> masa_objetivo,
     masas_molares |-> masas,
     ecuacion_balanceada |-> [reactivos |-> reac, productos |-> prod]]

\* The body of the try block: reads data, writes only its own locals.
http_try(data) ==
    LET bal == http_balanceo(data)
    IN  IF ~bal.ok THEN Raised(bal.exc, NoLocals, <<>>, data)
        ELSE
        LET reac  == bal.reac
            prod  == bal.prod
            masas == http_masas(reac, prod)
            md    == http_moles_dado(data, masas)
        IN  IF ~md.ok THEN Raised(md.exc, NoLocals, <<>>, data)
            ELSE
            LET coef_dado     == http_coef(reac, prod, data.compuesto_dado)
                coef_objetivo == http_coef(reac, prod, data.compuesto_objetivo)
                mo            == http_moles_objetivo(md.val, coef_objetivo, coef_dado)
            IN  IF ~mo.ok THEN Raised(mo.exc, NoLocals, <<>>, data)
                ELSE
                LET masa_objetivo == http_masa_objetivo(mo.val, masas, data)
                IN  Returned(
                        http_respuesta(mo.val, masa_objetivo, masas, reac, prod),
                        [moles_dado |-> md.val,
                         moles_objetivo |-> mo.val,
                         masa_objetivo |-> masa_objetivo,
                         mm_dado |-> masas[data.compuesto_dado],
                         mm_objetivo |-> masas[data.compuesto_objetivo],
                         coef_dado |-> coef_dado.val,
                         coef_objetivo |-> coef_objetivo.val],
                        <<>>, data)

\* except ValueError as e: every other exception leaves the handler.
http_except_ValueError(r) ==
    IF r.raised /\ r.exc.type = "ValueError"
    THEN Returned([error |-> str(r.exc)], r.locals, r.printed, r.data)
    ELSE r

\* except Exception as e: return {"error": str(e)}
http_except(r) ==
    IF r.raised
    THEN Returned([error |-> str(r.exc)], r.locals, r.printed, r.data)
    ELSE r

\* The handler storing the balanced coefficients in the request it was given.
calcular_estequiometria_in_place(data) ==
    LET r == http_except(http_try(data))
    IN  IF "ecuacion_balanceada" \in DOMAIN r.ret
        THEN [r EXCEPT !.data = [data EXCEPT
                 !.reactivos = r.ret.ecuacion_balanceada.reactivos,
                 !.productos = r.ret.ecuacion_balanceada.productos]]
        ELSE r

\* @app.post("/calcular/") def calcular_estequiometria(data)
calcular_estequiometria(data) == http_except(http_try(data))

\* ------------------------------------------------------- console output

\* f"{x:.2f}": x rounded to hundredths (ties to even), as a count of hundredths.
fmt2f(x) ==
    LET q == (100 * x.n) \div x.d
        r == 100 * x.n - q * x.d
    IN  IF 2 * r < x.d THEN q
        ELSE IF 2 * r > x.d THEN q + 1
        ELSE IF q % 2 = 0 THEN q ELSE q + 1

Line(text, compuesto, cent) == [text |-> text, compuesto |-> compuesto, cent |-> cent]

ToSet(seq) == {seq[i] : i \in 1..Len(seq)}

Plus == <<" ", "+", " ">>
Arrow == <<" ", "-", ">", " ">>

\* ------------------------------------------------ estequiometricos.py

\* def masa_molar(compuesto): f = formula(compuesto); return f.mass
masa_molar(compuesto) == periodictable_mass(compuesto)

\* balance_stoichiometry(*[s.split(' + ') for s in reaccion.split(' -> ')])
calcular_balanceo(reaccion) ==
    LET lados == split(reaccion, Arrow)
        args  == [i \in 1..Len(lados) |-> split(lados[i], Plus)]
    IN  IF Len(args) # 2
        THEN [ok |-> FALSE,
              exc |-> Exc("TypeError", "balance_stoichiometry() positional arguments", <<>>)]
        ELSE balance_stoichiometry(ToSet(args[1]), ToSet(args[2]))

\* reac.get(c, prod.get(c))
calcular_coef(reac, prod, c) ==
    IF c \in DOMAIN reac THEN Some(reac[c])
    ELSE IF c \in DOMAIN prod THEN Some(prod[c]) ELSE None

\* moles_origen = masa_origen / mm_origen
calcular_moles_origen(masa_origen, mm_origen) ==
    IF RIsZero(mm_origen)
    THEN [ok |-> FALSE, exc |-> Exc("ZeroDivisionError", "float division by zero", <<>>)]
    ELSE [ok |-> TRUE, val |-> RDiv(masa_origen, mm_origen)]

\* moles_objetivo = moles_origen * (coef_objetivo / coef_origen)
calcular_moles_objetivo(moles_origen, coef_objetivo, coef_origen) ==
    IF ~coef_objetivo.some \/ ~coef_origen.some
    THEN [ok |-> FALSE,
          exc |-> Exc("TypeError", "unsupported operand type(s) for /", <<>>)]
    ELSE IF coef_origen.val = 0
    THEN [ok |-> FALSE, exc |-> Exc("ZeroDivisionError", "division by zero", <<>>)]
    ELSE [ok |-> TRUE, val |-> RMul(moles_origen, Rat(coef_objetivo.val, coef_origen.val))]

\* masa_objetivo = moles_objetivo * mm_objetivo
calcular_masa_objetivo(moles_objetivo, mm_objetivo) == RMul(moles_objetivo, mm_objetivo)

\* the three result lines
calcular_print(compuesto_origen, mm_origen, compuesto_objetivo, mm_objetivo, masa_objetivo) ==
    << Line("Resultados:", <<>>, 0),
       Line("Masa molar", compuesto_origen, fmt2f(mm_origen)),
       Line("Masa molar", compuesto_objetivo, fmt2f(mm_objetivo)),
       Line("Masa obtenida de", compuesto_objetivo, fmt2f(masa_objetivo)) >>

\* def calcular(): stdin holds the four answers typed at the prompts.  No
\* exception is caught.
calcular(stdin) ==
    LET masa == float(stdin.masa_origen)
    IN  IF ~masa.ok
        THEN Raised(Exc("ValueError", "could not convert string to float", stdin.masa_origen),
                    NoLocals, <<>>, stdin)
        ELSE
        LET bal == calcular_balanceo(stdin.reaccion)
        IN  IF ~bal.ok THEN Raised(bal.exc, NoLocals, <<>>, stdin)
            ELSE
            LET coef_origen   == calcular_coef(bal.reac, bal.prod, stdin.compuesto_origen)
                coef_objetivo == calcular_coef(bal.reac, bal.prod, stdin.compuesto_objetivo)
                mm_origen     == masa_molar(stdin.compuesto_origen)
                mm_objetivo   == masa_molar(stdin.compuesto_objetivo)
            IN  IF ~mm_origen.ok THEN Raised(mm_origen.exc, NoLocals, <<>>, stdin)
                ELSE IF ~mm_objetivo.ok THEN Raised(mm_objetivo.exc, NoLocals, <<>>, stdin)
                ELSE
                LET mo == calcular_moles_origen(masa.val, mm_origen.mass)
                IN  IF ~mo.ok THEN Raised(mo.exc, NoLocals, <<>>, stdin)
                    ELSE
                    LET mt == calcular_moles_objetivo(mo.val, coef_objetivo, coef_origen)
                    IN  IF ~mt.ok THEN Raised(mt.exc, NoLocals, <<>>, stdin)
                        ELSE
                        LET masa_objetivo == calcular_masa_objetivo(mt.val, mm_objetivo.mass)
                        IN  Returned(<<>>,
                                [moles_dado |-> mo.val,
                                 moles_objetivo |-> mt.val,
                                 masa_objetivo |-> masa_objetivo,
                                 mm_dado |-> mm_origen.mass,
                                 mm_objetivo |-> mm_objetivo.mass,
                                 coef_dado |-> coef_origen.val,
                                 coef_objetivo |-> coef_objetivo.val],
                                calcular_print(stdin.compuesto_origen, mm_origen.mass,
                                               stdin.compuesto_objetivo, mm_objetivo.mass,
                                               masa_objetivo),
                                stdin)

\* ------------------------------------------- calculo_estequiometrico.py

\* def masa_molar(compuesto): try: return formula(compuesto).mass
\* except Exception: print("Error: compuesto no valido."); return None
masa_molar_o_None(compuesto) ==
    LET m == periodictable_mass(compuesto)
    IN  IF m.ok THEN [val |-> Some(m.mass), printed |-> <<>>]
        ELSE [val |-> None,
              printed |-> <<Line("Error: compuesto no valido.", <<>>, 0)>>]

\* moles_origen = masa_origen / mm_origen
calculo_moles_origen(masa_origen, mm_origen) ==
    IF RIsZero(mm_origen)
    THEN [ok |-> FALSE, exc |-> Exc("ZeroDivisionError", "float division by zero", <<>>)]
    ELSE [ok |-> TRUE, val |-> RDiv(masa_origen, mm_origen)]

\* moles_objetivo = moles_origen * (coef_objetivo / coef_origen)
calculo_moles_objetivo(moles_origen, coef_objetivo, coef_origen) ==
    IF RIsZero(coef_origen)
    THEN [ok |-> FALSE, exc |-> Exc("ZeroDivisionError", "float division by zero", <<>>)]
    ELSE [ok |-> TRUE, val |-> RMul(moles_origen, RDiv(coef_objetivo, coef_origen))]

\* masa_objetivo = moles_objetivo * mm_objetivo
calculo_masa_objetivo(moles_objetivo, mm_objetivo) == RMul(moles_objetivo, mm_objetivo)

\* the result lines
calculo_print(compuesto_origen, mm_origen, compuesto_objetivo, mm_objetivo, masa_objetivo) ==
    << Line("Resultados:", <<>>, 0),
       Line("Masa molar de", compuesto_origen, fmt2f(mm_origen)),
       Line("Masa molar de", compuesto_objetivo, fmt2f(mm_objetivo)),
       Line("Se produciran", compuesto_objetivo, fmt2f(masa_objetivo)) >>

\* def calculo_estequiometrico(): stdin holds the five answers typed at the
\* prompts.  float() failures and divisions by zero are not caught.
calculo_estequiometrico(stdin) ==
    LET masa == float(stdin.masa_origen)
        co   == float(stdin.coef_origen)
        ct   == float(stdin.coef_objetivo)
    IN  IF ~masa.ok
        THEN Raised(Exc("ValueError", "could not convert string to float", stdin.masa_origen),
                    NoLocals, <<>>, stdin)
        ELSE IF ~co.ok
        THEN Raised(Exc("ValueError", "could not convert string to float", stdin.coef_origen),
                    NoLocals, <<>>, stdin)
        ELSE IF ~ct.ok
        THEN Raised(Exc("ValueError", "could not convert string to float", stdin.coef_objetivo),
                    NoLocals, <<>>, stdin)
        ELSE
        LET mm_origen   == masa_molar_o_None(stdin.compuesto_origen)
            mm_objetivo == masa_molar_o_None(stdin.compuesto_objetivo)
            avisos      == mm_origen.printed \o mm_objetivo.printed
        IN  IF ~mm_origen.val.some \/ ~mm_objetivo.val.some
            THEN Returned(<<>>, NoLocals, avisos, stdin)
            ELSE
            LET mo == calculo_moles_origen(masa.val, mm_origen.val.val)
            IN  IF ~mo.ok THEN Raised(mo.exc, NoLocals, avisos, stdin)
                ELSE
                LET mt == calculo_moles_objetivo(mo.val, ct.val, co.val)
                IN  IF ~mt.ok THEN Raised(mt.exc, NoLocals, avisos, stdin)
                    ELSE
                    LET masa_objetivo == calculo_masa_objetivo(mt.val, mm_objetivo.val.val)
                    IN  Returned(<<>>,
                            [moles_dado |-> mo.val,
                             moles_objetivo |-> mt.val,
                             masa_objetivo |-> masa_objetivo,
                             mm_dado |-> mm_origen.val.val,
                             mm_objetivo |-> mm_objetivo.val.val,
                             coef_dado |-> co.val,
                             coef_objetivo |-> ct.val],
                            calculo_print(stdin.compuesto_origen, mm_origen.val.val,
                                          stdin.compuesto_objetivo, mm_objetivo.val.val,
                                          masa_objetivo),
                            stdin)

\* ----------------------------------------------------------------- inputs

\* Compounds a request may name.
Compuestos == {tH2, tO2, tH2O, tNH3, tCO2}

\* Coefficient values a caller writes in reactivos and productos.
CoefDados == {1, 3}

\* masa_dada values: negative, zero, whole and fractional.
MasasDadas == {Rat(-2, 1), RInt(0), RInt(4), Rat(9, 2)}

HttpRequests ==
    { [reactivos |-> [f \in e[1] |-> v],
       productos |-> [f \in e[2] |-> v],
       masa_dada |-> m,
       compuesto_dado |-> a,
       compuesto_objetivo |-> b] :
      e \in Ecuaciones, v \in CoefDados, m \in MasasDadas,
      a \in Compuestos, b \in Compuestos }

\* Reactions typed at the console prompt.
Reacciones ==
    { tH2 \o Plus \o tO2 \o Arrow \o tH2O,
      tN2 \o Plus \o tH2 \o Arrow \o tNH3,
      tNH3 \o Plus \o tO2 \o Arrow \o tN2 \o Plus \o tH2O,
      tH2 \o Arrow \o tH2O,
      tXx \o Plus \o tO2 \o Arrow \o tH2O,
      tH2 \o Plus \o tO2,
      tH2 \o <<"+">> \o tO2 \o <<"-", ">">> \o tH2O }

\* Numbers typed at the console prompts and in the form's mass fields.
TextosNumero ==
    { <<"4">>, <<"0">>, <<"-", "2">>, <<"4", ".", "5">>, <<"a", "b", "c">>, <<>> }

CompuestosConsola == {tH2, tO2, tH2O, tNH3, tXx, tVacio}

CalcularInputs ==
    { [reaccion |-> r, compuesto_origen |-> a, masa_origen |-> m,
       compuesto_objetivo |-> b] :
      r \in Reacciones, a \in CompuestosConsola, m \in TextosNumero,
      b \in CompuestosConsola }

TextosCoef == { <<"1">>, <<"2">>, <<"0">>, <<"x">> }

CalculoInputs ==
    { [compuesto_origen |-> a, masa_origen |-> m, coef_origen |-> ca,
       compuesto_objetivo |-> b, coef_objetivo |-> cb] :
      a \in {tH2, tH2O, tXx, tVacio}, m \in TextosNumero, ca \in TextosCoef,
      b \in {tO2, tH2O, tXx, tVacio}, cb \in TextosCoef }

\* ------------------------------------------------------------------ state

VARIABLES
    fn,      \* the calculator last invoked ("" before the first call)
    input,   \* its argument as the caller supplied it
    out,     \* how the call ended
    prev,    \* the call before it when this call converts its result back
    chain,   \* number of conversions fed back so far
    cpc,     \* estequiometricos.py: where the script stands ("off": not run)
    decicion, \* estequiometricos.py: the variable decicion
    nombre,  \* estequiometricos.py: the variable nombre
    app,          \* the desktop form that runs ("" when none does)
    disponible,   \* whether "from periodictable import formula" succeeds
    ventana,      \* "abierta" until on_salir destroys the window
    var_nombre,   \* StringVar of the name field
    var_comp1,    \* StringVar of the formula of Reactivo 1
    var_masa1,    \* StringVar of the mass of Reactivo 1
    var_comp2,    \* StringVar of the formula of Reactivo 2
    var_masa2,    \* StringVar of the mass of Reactivo 2
    txt_salida,   \* the texts inserted in the output panel, in order
    txt_state,    \* the panel's state option
    var_status,   \* StringVar of the status bar
    evento,       \* the last event the form handled
    dialogo,      \* the modal dialog that event showed
    invocaciones, \* the intentar_procesamiento calls made so far
    traza,        \* the steps that event took, in order
    antes,        \* panel, status and calls as they were before that event
    hilos         \* main.py: the handler's invocations in flight, one per thread

callVars == <<fn, input, out, prev, chain>>
consoleVars == <<cpc, decicion, nombre>>
campoVars == <<var_nombre, var_comp1, var_masa1, var_comp2, var_masa2>>
formVars == <<app, disponible, ventana, var_nombre, var_comp1, var_masa1, var_comp2,
              var_masa2, txt_salida, txt_state, var_status, evento, dialogo,
              invocaciones, traza, antes>>
vars == <<fn, input, out, prev, chain, cpc, decicion, nombre,
          app, disponible, ventana, var_nombre, var_comp1, var_masa1, var_comp2,
          var_masa2, txt_salida, txt_state, var_status, evento, dialogo,
          invocaciones, traza, antes, hilos>>

NoDialog == [tipo |-> "", titulo |-> "", campo |-> ""]

\* The form's variables while no form runs.
FormOff ==
    /\ app = ""
    /\ disponible = FALSE
    /\ ventana = ""
    /\ var_nombre = <<>> /\ var_comp1 = <<>> /\ var_masa1 = <<>>
    /\ var_comp2 = <<>> /\ var_masa2 = <<>>
    /\ txt_salida = <<>>
    /\ txt_state = ""
    /\ var_status = ""
    /\ evento = ""
    /\ dialogo = NoDialog
    /\ invocaciones = <<>>
    /\ traza = <<>>
    /\ antes = [txt_salida |-> <<>>, var_status |-> "", invocaciones |-> <<>>]

NoCall == [input |-> <<>>, out |-> Returned(<<>>, NoLocals, <<>>, <<>>)]

Init ==
    /\ fn = ""
    /\ input = <<>>
    /\ out = Returned(<<>>, NoLocals, <<>>, <<>>)
    /\ prev = NoCall
    /\ chain = 0
    /\ cpc = "off"
    /\ decicion = <<>>
    /\ nombre = <<>>
    /\ FormOff
    /\ hilos = <<>>

\* A client posts a request to /calcular/.
HttpCall ==
    /\ fn = ""
    /\ \E data \in HttpRequests :
        /\ fn' = "calcular_estequiometria"
        /\ input' = data
        /\ out' = calcular_estequiometria(data)
        /\ prev' = NoCall
        /\ chain' = 0
        /\ UNCHANGED <<consoleVars, formVars, hilos>>

Succeeded(o) == ~o.raised /\ "masa_objetivo" \in DOMAIN o.ret

\* The client posts the mass it was given back, with the two compounds
\* exchanged, on the same equation.
HttpConvertBack ==
    /\ fn = "calcular_estequiometria"
    /\ Succeeded(out)
    /\ chain < MaxChain
    /\ LET data == [input EXCEPT !.masa_dada = out.ret.masa_objetivo,
                                 !.compuesto_dado = input.compuesto_objetivo,
                                 !.compuesto_objetivo = input.compuesto_dado]
       IN  /\ input' = data
           /\ out' = calcular_estequiometria(data)
    /\ prev' = [input |-> input, out |-> out]
    /\ chain' = chain + 1
    /\ UNCHANGED <<fn, consoleVars, formVars, hilos>>

\* A user answers the prompts of calcular.
CalcularCall ==
    /\ fn = ""
    /\ \E stdin \in CalcularInputs :
        /\ fn' = "calcular"
        /\ input' = stdin
        /\ out' = calcular(stdin)
        /\ prev' = NoCall
        /\ chain' = 0
        /\ UNCHANGED <<consoleVars, formVars, hilos>>

\* A user answers the prompts of calculo_estequiometrico.
CalculoCall ==
    /\ fn = ""
    /\ \E stdin \in CalculoInputs :
        /\ fn' = "calculo_estequiometrico"
        /\ input' = stdin
        /\ out' = calculo_estequiometrico(stdin)
        /\ prev' = NoCall
        /\ chain' = 0
        /\ UNCHANGED <<consoleVars, formVars, hilos>>

\* The caller drops the outcome; nothing of a call outlives it.
Forget ==
    /\ fn # ""
    /\ fn' = ""
    /\ input' = <<>>
    /\ out' = Returned(<<>>, NoLocals, <<>>, <<>>)
    /\ prev' = NoCall
    /\ chain' = 0
    /\ UNCHANGED <<consoleVars, formVars, hilos>>

Next == HttpCall \/ HttpConvertBack \/ CalcularCall \/ CalculoCall \/ Forget

Spec == Init /\ [][Next]_vars

\* ----------------------------------------------------- claims on the calls

IsHttp == fn = "calcular_estequiometria"
IsCalcular == fn = "calcular"
IsCalculo == fn = "calculo_estequiometrico"

EqKeys(bal) == (DOMAIN bal.reac) \cup (DOMAIN bal.prod)
EqCoef(bal, c) == IF c \in DOMAIN bal.reac THEN bal.reac[c] ELSE bal.prod[c]

\* A formula in condensed notation naming at least one atom.
ValidFormula(f) == parse_formula(f).ok /\ f # <<>>

\* The three numbers of the conversion contract, from the known mass, the
\* two molar masses and the coefficient ratio target / known.
Contract(masa, mm_known, ratio, mm_target) ==
    LET moles_known  == RDiv(masa, mm_known)
        moles_target == RMul(moles_known, ratio)
    IN  [moles_known |-> moles_known,
         moles_target |-> moles_target,
         mass_target |-> RMul(moles_target, mm_target)]

LocalsMeet(o, c) ==
    /\ ~o.raised
    /\ "masa_objetivo" \in DOMAIN o.locals
    /\ o.locals.moles_dado = c.moles_known
    /\ o.locals.moles_objetivo = c.moles_target
    /\ o.locals.masa_objetivo = c.mass_target

\* The request names two compounds of an equation that balances, and a
\* positive mass.
HttpWellFormed ==
    /\ IsHttp
    /\ RPos(input.masa_dada)
    /\ LET bal == http_balanceo(input)
       IN  /\ bal.ok
           /\ input.compuesto_dado \in EqKeys(bal)
           /\ input.compuesto_objetivo \in EqKeys(bal)

CalcularWellFormed ==
    /\ IsCalcular
    /\ float(input.masa_origen).ok
    /\ RPos(float(input.masa_origen).val)
    /\ LET bal == calcular_balanceo(input.reaccion)
       IN  /\ bal.ok
           /\ input.compuesto_origen \in EqKeys(bal)
           /\ input.compuesto_objetivo \in EqKeys(bal)

\* calculo_estequiometrico has no equation: its two compounds are well formed
\* when their formulas are valid and their typed coefficients are positive.
CalculoWellFormed ==
    /\ IsCalculo
    /\ float(input.masa_origen).ok /\ RPos(float(input.masa_origen).val)
    /\ float(input.coef_origen).ok /\ RPos(float(input.coef_origen).val)
    /\ float(input.coef_objetivo).ok /\ RPos(float(input.coef_objetivo).val)
    /\ ValidFormula(input.compuesto_origen)
    /\ ValidFormula(input.compuesto_objetivo)

\* C1: a conversion of a positive mass between two compounds of the balanced
\* equation ends in success with moles_known = mass / molar_mass(known),
\* moles_target = moles_known * coefficient(target) / coefficient(known) and
\* mass_target = moles_target * molar_mass(target), in the HTTP handler, in
\* calcular and in calculo_estequiometrico.
C1_ConversionContract ==
    /\ HttpWellFormed =>
         LET bal == http_balanceo(input)
             c   == Contract(input.masa_dada,
                             MassOf(AtomsOf(input.compuesto_dado)),
                             Rat(EqCoef(bal, input.compuesto_objetivo),
                                 EqCoef(bal, input.compuesto_dado)),
                             MassOf(AtomsOf(input.compuesto_objetivo)))
         IN  /\ LocalsMeet(out, c)
             /\ DOMAIN out.ret # {"error"}
             /\ out.ret.moles_objetivo = c.moles_target
             /\ out.ret.masa_objetivo = c.mass_target
    /\ CalcularWellFormed =>
         LET bal == calcular_balanceo(input.reaccion)
         IN  LocalsMeet(out,
                 Contract(float(input.masa_origen).val,
                          MassOf(AtomsOf(input.compuesto_origen)),
                          Rat(EqCoef(bal, input.compuesto_objetivo),
                              EqCoef(bal, input.compuesto_origen)),
                          MassOf(AtomsOf(input.compuesto_objetivo))))
    /\ CalculoWellFormed =>
         LocalsMeet(out,
             Contract(float(input.masa_origen).val,
                      MassOf(AtomsOf(input.compuesto_origen)),
                      RDiv(float(input.coef_objetivo).val, float(input.coef_origen).val),
                      MassOf(AtomsOf(input.compuesto_objetivo))))

\* Witness of C1: 4 g of H2 converted to O2 over 2 H2 + O2 -> 2 H2O by the
\* HTTP handler gives 5333/168 g (31.74 g).
C1_Witness ==
    /\ HttpWellFormed
    /\ input.compuesto_dado = tH2 /\ input.compuesto_objetivo = tO2
    /\ input.masa_dada = RInt(4)
    /\ ~out.raised /\ DOMAIN out.ret # {"error"}
    /\ out.ret.masa_objetivo = Rat(5333, 168)

\* How the call ended for its caller: a conversion result, or not.
GaveResult ==
    \/ IsHttp /\ ~out.raised /\ "masa_objetivo" \in DOMAIN out.ret
    \/ (IsCalcular \/ IsCalculo) /\ ~out.raised /\ Len(out.printed) = 4

\* The mass the call was given, when it is a number.
MassGiven ==
    IF IsHttp THEN [ok |-> TRUE, val |-> input.masa_dada]
    ELSE IF IsCalcular \/ IsCalculo THEN float(input.masa_origen)
    ELSE [ok |-> FALSE, val |-> RInt(0)]

\* C2: a conversion whose known mass is zero or negative fails and never
\* yields a success result carrying a target mass.
C2_NonPositiveMassFails ==
    (fn # "" /\ MassGiven.ok /\ ~RPos(MassGiven.val)) => ~GaveResult

\* The equation balances and the call names a compound that is not in it.
CompoundAbsent ==
    \/ /\ IsHttp
       /\ LET bal == http_balanceo(input)
          IN  /\ bal.ok
              /\ \/ input.compuesto_dado \notin EqKeys(bal)
                 \/ input.compuesto_objetivo \notin EqKeys(bal)
    \/ /\ IsCalcular
       /\ float(input.masa_origen).ok
       /\ LET bal == calcular_balanceo(input.reaccion)
          IN  /\ bal.ok
              /\ \/ input.compuesto_origen \notin EqKeys(bal)
                 \/ input.compuesto_objetivo \notin EqKeys(bal)

\* The label under which a failure reaches the immediate caller: the text of
\* the error object of the HTTP handler, the class of the exception a console
\* function raises.
FailureLabel ==
    IF IsHttp /\ DOMAIN out.ret = {"error"} THEN out.ret.error.text
    ELSE IF out.raised THEN out.exc.type
    ELSE ""

\* C3: a conversion naming a compound that is on neither side of the balanced
\* equation fails with the distinct kind CompoundNotInEquation, and never
\* succeeds with a default in place of the missing coefficient.
C3_AbsentCompoundKind ==
    CompoundAbsent => (~GaveResult /\ FailureLabel = "CompoundNotInEquation")

\* The compounds whose molar mass the console call asks masa_molar for.
MolarMassAsked ==
    IF IsCalculo /\ float(input.masa_origen).ok /\ float(input.coef_origen).ok
                 /\ float(input.coef_objetivo).ok
    THEN {input.compuesto_origen, input.compuesto_objetivo}
    ELSE IF IsCalcular /\ float(input.masa_origen).ok
                       /\ calcular_balanceo(input.reaccion).ok
    THEN {input.compuesto_origen, input.compuesto_objetivo}
    ELSE {}

\* The failure the caller is given names the formula as the cause.
InvalidFormulaReported ==
    \/ IsCalculo /\ ~out.raised
         /\ \E i \in 1..Len(out.printed) :
                out.printed[i].text = "Error: compuesto no valido."
    \/ IsCalcular /\ out.raised /\ out.exc.text = "unable to parse formula"

\* C4: a formula that cannot be resolved to a molar mass makes the operation
\* fail with a labelled invalid-formula failure and no conversion result; a
\* formula that does resolve has a molar mass strictly greater than zero.
C4_MolarMassResolution ==
    \A c \in MolarMassAsked :
        LET m == periodictable_mass(c)
        IN  /\ ~m.ok => (~GaveResult /\ InvalidFormulaReported)
            /\ m.ok => RPos(m.mass)

\* C5: converting a positive mass of A to B and the resulting mass of B back
\* to A, over the same balanced equation, succeeds and returns the original
\* mass.
C5_RoundTrip ==
    (IsHttp /\ prev # NoCall /\ RPos(prev.input.masa_dada)) =>
        /\ ~out.raised
        /\ "masa_objetivo" \in DOMAIN out.ret
        /\ out.ret.masa_objetivo = prev.input.masa_dada

\* Witness of C5: a mass converted between two different compounds, changed
\* by the conversion, and converted back.
C5_Witness ==
    /\ IsHttp /\ prev # NoCall
    /\ RPos(prev.input.masa_dada)
    /\ prev.input.compuesto_dado # prev.input.compuesto_objetivo
    /\ prev.out.ret.masa_objetivo # prev.input.masa_dada
    /\ input.masa_dada = prev.out.ret.masa_objetivo
    /\ input.compuesto_objetivo = prev.input.compuesto_dado
    /\ ~out.raised /\ "masa_objetivo" \in DOMAIN out.ret

HttpSuccessKeys == {"moles_objetivo", "masa_objetivo", "masas_molares", "ecuacion_balanceada"}

\* C6: the HTTP handler never raises; it returns an object with exactly the
\* keys moles_objetivo, masa_objetivo, masas_molares and ecuacion_balanceada
\* (the balanced coefficients of reactants and products), or an object with
\* the single key error holding the message; both are ordinary returns.
C6_HandlerTotal ==
    IsHttp =>
        /\ ~out.raised
        /\ \/ /\ DOMAIN out.ret = HttpSuccessKeys
              /\ DOMAIN out.ret.ecuacion_balanceada = {"reactivos", "productos"}
              /\ DOMAIN out.ret.ecuacion_balanceada.reactivos = DOMAIN input.reactivos
              /\ DOMAIN out.ret.ecuacion_balanceada.productos = DOMAIN input.productos
           \/ /\ DOMAIN out.ret = {"error"}
              /\ out.ret.error = str(http_try(input).exc)

\* Witness of C6: an exception raised inside the handler (the target compound
\* has no coefficient) came back as an error object.
C6_Witness ==
    /\ IsHttp /\ ~out.raised
    /\ DOMAIN out.ret = {"error"}
    /\ http_try(input).raised
    /\ http_try(input).exc.type = "TypeError"

\* The quantities a successful result hands to its caller.
ResultQuantities ==
    IF IsHttp
    THEN {q \in {"moles_known", "moles_target", "mass_target", "mm_known", "mm_target"} :
            \/ q = "moles_known"  /\ "moles_dado" \in DOMAIN out.ret
            \/ q = "moles_target" /\ "moles_objetivo" \in DOMAIN out.ret
            \/ q = "mass_target"  /\ "masa_objetivo" \in DOMAIN out.ret
            \/ q = "mm_known"  /\ input.compuesto_dado \in DOMAIN out.ret.masas_molares
            \/ q = "mm_target" /\ input.compuesto_objetivo \in DOMAIN out.ret.masas_molares}
    ELSE {q \in {"mm_known", "mm_target", "mass_target"} :
            \/ q = "mm_known"
                 /\ out.printed[2].compuesto = input.compuesto_origen
                 /\ out.printed[2].cent = fmt2f(out.locals.mm_dado)
            \/ q = "mm_target"
                 /\ out.printed[3].compuesto = input.compuesto_objetivo
                 /\ out.printed[3].cent = fmt2f(out.locals.mm_objetivo)
            \/ q = "mass_target"
                 /\ out.printed[4].compuesto = input.compuesto_objetivo
                 /\ out.printed[4].cent = fmt2f(out.locals.masa_objetivo)}

\* C7: every successful conversion result contains the moles of the known
\* compound, the moles of the target compound, the mass of the target
\* compound and the molar masses of both.
C7_ResultComplete ==
    GaveResult =>
        {"moles_known", "moles_target", "mass_target", "mm_known", "mm_target"}
            \subseteq ResultQuantities

\* C8: the HTTP handler leaves the request as the caller supplied it, on
\* success and on error: reactivos, productos, masa_dada, compuesto_dado and
\* compuesto_objetivo are unchanged.
C8_RequestUntouched ==
    IsHttp =>
        /\ out.data = input
        /\ out.data.reactivos = input.reactivos
        /\ out.data.productos = input.productos

\* Witness of C8: a successful call whose balanced coefficients differ from
\* the ones the caller wrote in the request, which still holds the caller's.
C8_Witness ==
    /\ IsHttp /\ ~out.raised
    /\ "ecuacion_balanceada" \in DOMAIN out.ret
    /\ out.ret.ecuacion_balanceada.reactivos # input.reactivos
    /\ out.data = input

\* ------------------------------------- estequiometricos.py: the console loop

\* str.lower() and str.upper() on the letters the answers use.
lower_char(c) ==
    CASE c = "S" -> "s" [] c = "I" -> "i" [] c = "N" -> "n" [] c = "O" -> "o"
      [] c = "A" -> "a" [] OTHER -> c

upper_char(c) ==
    CASE c = "s" -> "S" [] c = "i" -> "I" [] c = "n" -> "N" [] c = "o" -> "O"
      [] c = "a" -> "A" [] OTHER -> c

lower(s) == [i \in 1..Len(s) |-> lower_char(s[i])]
upper(s) == [i \in 1..Len(s) |-> upper_char(s[i])]

tSi == <<"s", "i">>
tNo == <<"n", "o">>

\* Answers typed at the two yes/no prompts, and names typed at the name prompt.
Respuestas == {tSi, <<"S", "I">>, tNo, <<"N", "o">>, <<"s", "i", " ">>, <<>>}
Nombres == {<<"a", "n", "a">>, <<>>}

InitConsole ==
    /\ fn = ""
    /\ input = <<>>
    /\ out = Returned(<<>>, NoLocals, <<>>, <<>>)
    /\ prev = NoCall
    /\ chain = 0
    /\ cpc = "bienvenida"
    /\ decicion = <<>>
    /\ nombre = <<>>
    /\ FormOff
    /\ hilos = <<>>

\* decicion = input("BIENVENID@S ...").lower(), then the while test.
Bienvenida ==
    /\ cpc = "bienvenida"
    /\ \E r \in Respuestas :
        /\ decicion' = lower(r)
        /\ cpc' = IF lower(r) = tSi THEN "nombre" ELSE "fin"
    /\ UNCHANGED <<callVars, nombre, formVars, hilos>>

\* nombre = input("Hola, ...").upper(); the greeting; def calcular.
Nombre ==
    /\ cpc = "nombre"
    /\ \E r \in Nombres : nombre' = upper(r)
    /\ cpc' = "calcular"
    /\ fn' = ""
    /\ input' = <<>>
    /\ out' = Returned(<<>>, NoLocals, <<>>, <<>>)
    /\ UNCHANGED <<prev, chain, decicion, formVars, hilos>>

\* if __name__ == "__main__": calcular().  Nothing around the call catches an
\* exception: one that calcular raises ends the script with a traceback.
Calcular ==
    /\ cpc = "calcular"
    /\ \E stdin \in CalcularInputs :
        /\ fn' = "calcular"
        /\ input' = stdin
        /\ out' = calcular(stdin)
        /\ cpc' = IF calcular(stdin).raised THEN "traceback" ELSE "otra"
    /\ UNCHANGED <<prev, chain, decicion, nombre, formVars, hilos>>

\* decicion = input("Deseas ingresar otras reacciones quimicas").lower();
\* if decicion == "no": break; then the while test.
Otra ==
    /\ cpc = "otra"
    /\ \E r \in Respuestas :
        /\ decicion' = lower(r)
        /\ cpc' = IF lower(r) = tNo THEN "fin"
                  ELSE IF lower(r) = tSi THEN "nombre" ELSE "fin"
    /\ UNCHANGED <<callVars, nombre, formVars, hilos>>

NextConsole == Bienvenida \/ Nombre \/ Calcular \/ Otra

SpecConsole == InitConsole /\ [][NextConsole]_vars

\* C9: a calcular invocation that fails (unparsable reaction, non-numeric
\* mass, invalid formula, compound absent from the equation) does not end the
\* script: the loop still reaches the prompt asking for another reaction.
C9_FailureIsLocal ==
    (IsCalcular /\ out.raised) => cpc = "otra"

\* ------------------- app_estequiometria_tk.py, estequiometria_explica.py

\* f"{x:.6g}": x rounded to six significant digits (ties to even), for the
\* magnitudes below 10^6 that masses, molar masses and moles take here.
RECURSIVE Scale6(_, _, _, _)
Scale6(m, r, d, k) ==
    IF m >= 100000 THEN [m |-> m, r |-> r, k |-> k]
    ELSE Scale6(10 * m + (10 * r) \div d, (10 * r) % d, d, k + 1)

fmt6g(x) ==
    IF x.n = 0 THEN x
    ELSE LET a == Abs(x.n)
             s == Scale6(a \div x.d, a % x.d, x.d, 0)
             m == IF 2 * s.r < x.d THEN s.m
                  ELSE IF 2 * s.r > x.d THEN s.m + 1
                  ELSE IF s.m % 2 = 0 THEN s.m ELSE s.m + 1
         IN  Rat((IF x.n < 0 THEN -1 ELSE 1) * m, Pow10(s.k))

\* A text shown in the panel: its kind, the strings and the formatted numbers
\* it interpolates, and the number of newlines that end it.
Bloque(tipo, saludo, comp1, comp2, nums, msg, nl) ==
    [tipo |-> tipo, saludo |-> saludo, comp1 |-> comp1, comp2 |-> comp2,
     nums |-> nums, msg |-> msg, nl |-> nl]

NoMsg == [text |-> "", arg |-> <<>>]

\* intentar_procesamiento going on to the calculation when the import of
\* periodictable has failed.
intentar_procesamiento_sin_import(comp1, masa1, comp2, masa2, importable) ==
    LET mm1 == periodictable_mass(comp1)
        mm2 == periodictable_mass(comp2)
        problema(e) ==
            Bloque("Ocurrio un problema durante el calculo provisional",
                   <<>>, <<>>, <<>>, <<>>, str(e), 0)
    IN  IF ~mm1.ok THEN problema(mm1.exc)
        ELSE IF ~mm2.ok THEN problema(mm2.exc)
        ELSE IF ~RPos(mm1.mass) \/ ~RPos(mm2.mass)
        THEN problema(Exc("ValueError", "Masas molares no validas.", <<>>))
        ELSE Bloque("RESULTADO (provisional)", <<>>, comp1, comp2,
                    << fmt6g(masa1), fmt6g(mm1.mass), fmt6g(RDiv(masa1, mm1.mass)),
                       fmt6g(masa2), fmt6g(mm2.mass), fmt6g(RDiv(masa2, mm2.mass)) >>,
                    NoMsg, 0)

\* def intentar_procesamiento(comp1, masa1, comp2, masa2) -> str; importable
\* tells whether "from periodictable import formula" succeeds.
intentar_procesamiento(comp1, masa1, comp2, masa2, importable) ==
    IF ~importable
    THEN Bloque("Procesamiento en revision", <<>>, <<>>, <<>>, <<>>, NoMsg, 0)
    ELSE
    LET mm1 == periodictable_mass(comp1)
        mm2 == periodictable_mass(comp2)
        problema(e) ==
            Bloque("Ocurrio un problema durante el calculo provisional",
                   <<>>, <<>>, <<>>, <<>>, str(e), 0)
    IN  IF ~mm1.ok THEN problema(mm1.exc)
        ELSE IF ~mm2.ok THEN problema(mm2.exc)
        ELSE IF ~RPos(mm1.mass) \/ ~RPos(mm2.mass)
        THEN problema(Exc("ValueError", "Masas molares no validas.", <<>>))
        ELSE Bloque("RESULTADO (provisional)", <<>>, comp1, comp2,
                    << fmt6g(masa1), fmt6g(mm1.mass), fmt6g(RDiv(masa1, mm1.mass)),
                       fmt6g(masa2), fmt6g(mm2.mass), fmt6g(RDiv(masa2, mm2.mass)) >>,
                    NoMsg, 0)

\* The widgets' state as one record.
Form ==
    [var_nombre |-> var_nombre, var_comp1 |-> var_comp1, var_masa1 |-> var_masa1,
     var_comp2 |-> var_comp2, var_masa2 |-> var_masa2,
     txt_salida |-> txt_salida, txt_state |-> txt_state, var_status |-> var_status,
     dialogo |-> dialogo, invocaciones |-> invocaciones, traza |-> <<>>]

\* txt_salida.configure(state=...)
configure_state(f, state) ==
    [f EXCEPT !.txt_state = state, !.traza = Append(@, "state=" \o state)]

\* txt_salida.insert("end", text): a disabled Text widget ignores it.
insert_end(f, text) ==
    IF f.txt_state = "normal"
    THEN [f EXCEPT !.txt_salida = Append(@, text), !.traza = Append(@, "insert")]
    ELSE [f EXCEPT !.traza = Append(@, "insert")]

\* _append_salida without its last line: the panel is left editable.
append_salida_normal(f, text) ==
    LET f1 == configure_state(f, "normal")
        f2 == insert_end(f1, IF text.nl = 0 THEN [text EXCEPT !.nl = 1] ELSE text)
    IN  [f2 EXCEPT !.traza = Append(@, "see")]

\* def _append_salida(self, text)
append_salida(f, text) ==
    LET f1 == configure_state(f, "normal")
        f2 == insert_end(f1, IF text.nl = 0 THEN [text EXCEPT !.nl = 1] ELSE text)
        f3 == [f2 EXCEPT !.traza = Append(@, "see")]
    IN  configure_state(f3, "disabled")

\* self.var_status.set(value)
status_set(f, value) ==
    [f EXCEPT !.var_status = value, !.traza = Append(@, "status=" \o value)]

\* messagebox.showwarning / showerror / showinfo: modal, then dismissed.
messagebox(f, tipo, titulo, campo) ==
    [f EXCEPT !.dialogo = [tipo |-> tipo, titulo |-> titulo, campo |-> campo],
              !.traza = Append(@, tipo)]

\* def _validar_float(self, value, nombre_campo) -> float
validar_float(value, nombre_campo) ==
    LET v == float(value)
    IN  IF v.ok THEN [ok |-> TRUE, val |-> v.val, campo |-> nombre_campo]
        ELSE [ok |-> FALSE, val |-> RInt(0), campo |-> nombre_campo]

\* if not comp1 and not comp2
faltan_formulas_and(comp1, comp2) == comp1 = <<>> /\ comp2 = <<>>

\* if not comp1 or not comp2
faltan_formulas(comp1, comp2) == comp1 = <<>> \/ comp2 = <<>>

\* on_limpiar resetting every field of the form, the name included.
on_limpiar_todo(f) ==
    LET f1 == [f EXCEPT !.var_nombre = <<>>,
                        !.var_comp1 = <<>>, !.var_masa1 = <<>>,
                        !.var_comp2 = <<>>, !.var_masa2 = <<>>]
        f2 == append_salida(f1,
                  Bloque("Campos limpiados", <<>>, <<>>, <<>>, <<>>, NoMsg, 1))
    IN  status_set(f2, "Campos limpios.")

\* def on_limpiar(self)
on_limpiar(f) ==
    LET f1 == [f EXCEPT !.var_comp1 = <<>>, !.var_masa1 = <<>>,
                        !.var_comp2 = <<>>, !.var_masa2 = <<>>]
        f2 == append_salida(f1,
                  Bloque("Campos limpiados", <<>>, <<>>, <<>>, <<>>, NoMsg, 1))
    IN  status_set(f2, "Campos limpios.")

\* on_calcular computing before it shows the summary: the result is appended
\* first and the status never passes through 'Procesando...'.
on_calcular_sin_resumen_previo(f, importable) ==
    LET nombre_   == strip(f.var_nombre)
        comp1     == strip(f.var_comp1)
        comp2     == strip(f.var_comp2)
        masa1     == validar_float(replace_comma(strip(f.var_masa1)), "Masa (Reactivo 1)")
        masa2     == validar_float(replace_comma(strip(f.var_masa2)), "Masa (Reactivo 2)")
    IN  IF faltan_formulas(comp1, comp2)
        THEN messagebox(f, "showwarning", "Datos incompletos", "")
        ELSE IF ~masa1.ok
        THEN messagebox(f, "showerror", "Entrada invalida", masa1.campo)
        ELSE IF ~masa2.ok
        THEN messagebox(f, "showerror", "Entrada invalida", masa2.campo)
        ELSE
        LET resultado == intentar_procesamiento(comp1, masa1.val, comp2, masa2.val,
                                                importable)
            f1 == [f EXCEPT
                     !.invocaciones = Append(@, [comp1 |-> comp1, masa1 |-> masa1.val,
                                                  comp2 |-> comp2, masa2 |-> masa2.val]),
                     !.traza = Append(@, "intentar_procesamiento")]
            f2 == append_salida(f1, [resultado EXCEPT !.nl = @ + 1])
            f3 == append_salida(f2,
                      Bloque("CALCULOS ESTEQUIOMETRICOS", nombre_, comp1, comp2,
                             <<fmt6g(masa1.val), fmt6g(masa2.val)>>, NoMsg, 1))
        IN  status_set(f3, "Listo.")

\* def on_calcular(self)
on_calcular(f, importable) ==
    LET nombre_   == strip(f.var_nombre)
        comp1     == strip(f.var_comp1)
        comp2     == strip(f.var_comp2)
        masa1_txt == replace_comma(strip(f.var_masa1))
        masa2_txt == replace_comma(strip(f.var_masa2))
    IN  IF faltan_formulas(comp1, comp2)
        THEN messagebox(f, "showwarning", "Datos incompletos", "")
        ELSE
        LET masa1 == validar_float(masa1_txt, "Masa (Reactivo 1)")
            masa2 == validar_float(masa2_txt, "Masa (Reactivo 2)")
        IN  IF ~masa1.ok
            THEN messagebox(f, "showerror", "Entrada invalida", masa1.campo)
            ELSE IF ~masa2.ok
            THEN messagebox(f, "showerror", "Entrada invalida", masa2.campo)
            ELSE
            LET f1 == append_salida(f,
                          Bloque("CALCULOS ESTEQUIOMETRICOS", nombre_, comp1, comp2,
                                 <<fmt6g(masa1.val), fmt6g(masa2.val)>>, NoMsg, 1))
                f2 == status_set(f1, "Procesando...")
                resultado == intentar_procesamiento(comp1, masa1.val, comp2, masa2.val,
                                                    importable)
                f3 == [f2 EXCEPT
                         !.invocaciones = Append(@, [comp1 |-> comp1, masa1 |-> masa1.val,
                                                      comp2 |-> comp2, masa2 |-> masa2.val]),
                         !.traza = Append(@, "intentar_procesamiento")]
                f4 == append_salida(f3, [resultado EXCEPT !.nl = @ + 1])
            IN  status_set(f4, "Listo.")

\* def on_acerca_de(self)
on_acerca_de(f) == messagebox(f, "showinfo", "Acerca de", "")

\* The variant has ttk.Entry widgets bound to its StringVars, and ttk.Button
\* widgets bound to on_calcular, on_limpiar and on_salir.
TieneEntradas(a) == a = "estequiometria_explica"
TieneBotones(a) == a = "estequiometria_explica"

Apps == {"app_estequiometria_tk", "estequiometria_explica"}

\* Texts a user types in the fields.
TextosNombre == {<<>>, <<" ", "a">>}
TextosComp1 == {<<>>, <<" ">>, <<" ", "H", "2">>, tXx}
TextosMasa1 == {<<>>, <<"-", "2", ",", "5">>, <<"a">>}
TextosComp2 == {<<>>, tO2}
TextosMasa2 == {<<>>, <<"0">>, <<"x">>}

Snapshot == [txt_salida |-> txt_salida, var_status |-> var_status,
             invocaciones |-> invocaciones]

\* Events that wrote to the panel so far.
EventosEnPanel(salida) ==
    Cardinality({i \in 1..Len(salida) :
                    salida[i].tipo \in {"CALCULOS ESTEQUIOMETRICOS", "Campos limpiados"}})

\* The window after App.__init__.
InitForm ==
    /\ fn = ""
    /\ input = <<>>
    /\ out = Returned(<<>>, NoLocals, <<>>, <<>>)
    /\ prev = NoCall
    /\ chain = 0
    /\ cpc = "off"
    /\ decicion = <<>>
    /\ nombre = <<>>
    /\ app \in Apps
    /\ disponible \in BOOLEAN
    /\ ventana = "abierta"
    /\ var_nombre = <<>> /\ var_comp1 = <<>> /\ var_masa1 = <<>>
    /\ var_comp2 = <<>> /\ var_masa2 = <<>>
    /\ txt_salida = <<>>
    /\ txt_state = "disabled"
    /\ var_status = "Listo."
    /\ evento = ""
    /\ dialogo = NoDialog
    /\ invocaciones = <<>>
    /\ traza = <<>>
    /\ antes = [txt_salida |-> <<>>, var_status |-> "Listo.", invocaciones |-> <<>>]
    /\ hilos = <<>>

\* The widgets take the state f; the event is recorded with the state before it.
Handled(name, f) ==
    /\ var_nombre' = f.var_nombre
    /\ var_comp1' = f.var_comp1
    /\ var_masa1' = f.var_masa1
    /\ var_comp2' = f.var_comp2
    /\ var_masa2' = f.var_masa2
    /\ txt_salida' = f.txt_salida
    /\ txt_state' = f.txt_state
    /\ var_status' = f.var_status
    /\ dialogo' = f.dialogo
    /\ invocaciones' = f.invocaciones
    /\ traza' = f.traza
    /\ evento' = name
    /\ antes' = Snapshot
    /\ UNCHANGED <<callVars, consoleVars, app, disponible, ventana, hilos>>

\* The user edits one Entry.
Escribir ==
    /\ ventana = "abierta"
    /\ TieneEntradas(app)
    /\ \/ \E t \in TextosNombre :
            Handled("escribir", [Form EXCEPT !.var_nombre = t, !.dialogo = NoDialog])
       \/ \E t \in TextosComp1 :
            Handled("escribir", [Form EXCEPT !.var_comp1 = t, !.dialogo = NoDialog])
       \/ \E t \in TextosMasa1 :
            Handled("escribir", [Form EXCEPT !.var_masa1 = t, !.dialogo = NoDialog])
       \/ \E t \in TextosComp2 :
            Handled("escribir", [Form EXCEPT !.var_comp2 = t, !.dialogo = NoDialog])
       \/ \E t \in TextosMasa2 :
            Handled("escribir", [Form EXCEPT !.var_masa2 = t, !.dialogo = NoDialog])

\* The Return key (bound in __init__) or the Calcular button.
OnCalcular ==
    /\ ventana = "abierta"
    /\ \E f \in {on_calcular([Form EXCEPT !.dialogo = NoDialog], disponible)} :
          /\ EventosEnPanel(f.txt_salida) <= MaxEventos
          /\ Handled("on_calcular", f)

\* The Limpiar button.
OnLimpiar ==
    /\ ventana = "abierta"
    /\ TieneBotones(app)
    /\ \E f \in {on_limpiar([Form EXCEPT !.dialogo = NoDialog])} :
          /\ EventosEnPanel(f.txt_salida) <= MaxEventos
          /\ Handled("on_limpiar", f)

\* Ayuda > Acerca de.
OnAcercaDe ==
    /\ ventana = "abierta"
    /\ Handled("on_acerca_de", on_acerca_de([Form EXCEPT !.dialogo = NoDialog]))

\* Archivo > Salir, Ctrl+Q or the Salir button: on_salir destroys the window.
OnSalir ==
    /\ ventana = "abierta"
    /\ ventana' = "destruida"
    /\ evento' = "on_salir"
    /\ UNCHANGED <<callVars, consoleVars, app, disponible, campoVars, txt_salida,
                   txt_state, var_status, dialogo, invocaciones, traza, antes, hilos>>

NextForm == Escribir \/ OnCalcular \/ OnLimpiar \/ OnAcercaDe \/ OnSalir

SpecForm == InitForm /\ [][NextForm]_vars

\* C10: a Calcular action fired while either formula field is empty after
\* stripping, or either mass field is not numeric after replacing ',' by '.',
\* shows a modal dialog and returns without invoking intentar_procesamiento,
\* leaving the output panel and the status text unchanged.
C10_RejectedCalcular ==
    ( /\ evento = "on_calcular"
      /\ \/ strip(var_comp1) = <<>>
         \/ strip(var_comp2) = <<>>
         \/ ~float(replace_comma(strip(var_masa1))).ok
         \/ ~float(replace_comma(strip(var_masa2))).ok )
    => /\ dialogo.tipo \in {"showwarning", "showerror"}
       /\ txt_salida = antes.txt_salida
       /\ var_status = antes.var_status
       /\ invocaciones = antes.invocaciones
       /\ "intentar_procesamiento" \notin ToSet(traza)

\* Witness of C10: with both formulas filled and text already in the panel, a
\* Calcular action met a mass that is not numeric and showed the error dialog.
C10_Witness ==
    /\ evento = "on_calcular"
    /\ strip(var_comp1) # <<>> /\ strip(var_comp2) # <<>>
    /\ ~float(replace_comma(strip(var_masa1))).ok
    /\ dialogo.tipo = "showerror"
    /\ Len(txt_salida) > 0
    /\ txt_salida = antes.txt_salida

\* a is a prefix of b.
IsPrefix(a, b) == Len(a) <= Len(b) /\ SubSeq(b, 1, Len(a)) = a

\* In the steps t of a handler the panel is made editable only by
\* _append_salida: each state=normal is followed at once by the insert, the
\* scroll to the end and state=disabled.
NormalOnlyInside(t) ==
    \A i \in 1..Len(t) :
        t[i] = "state=normal" =>
            /\ i + 3 <= Len(t)
            /\ t[i + 1] = "insert"
            /\ t[i + 2] = "see"
            /\ t[i + 3] = "state=disabled"

\* C11: the output panel is read-only and append-only: after construction and
\* after every event its state is 'disabled', it is 'normal' only inside
\* _append_salida, and every event leaves the text shown before it as a prefix
\* of the text shown after it.
C11_PanelReadOnlyAppendOnly ==
    /\ txt_state = "disabled"
    /\ NormalOnlyInside(traza)
    /\ IsPrefix(antes.txt_salida, txt_salida)

\* Witness of C11: on_limpiar and on_calcular have both written to the panel,
\* the later one after text of the earlier one, and the panel is disabled.
C11_Witness ==
    /\ evento \in {"on_calcular", "on_limpiar"}
    /\ Len(antes.txt_salida) > 0
    /\ Len(txt_salida) > Len(antes.txt_salida)
    /\ "state=normal" \in ToSet(traza)
    /\ \E i, j \in 1..Len(txt_salida) :
          /\ txt_salida[i].tipo = "Campos limpiados"
          /\ txt_salida[j].tipo = "RESULTADO (provisional)"
    /\ txt_state = "disabled"

\* The steps of one _append_salida.
PasosAppend == <<"state=normal", "insert", "see", "state=disabled">>

\* The fields pass on_calcular's validation.
Validado ==
    /\ strip(var_comp1) # <<>>
    /\ strip(var_comp2) # <<>>
    /\ float(replace_comma(strip(var_masa1))).ok
    /\ float(replace_comma(strip(var_masa2))).ok

\* C15: a Calcular action that passes validation performs, in this order and
\* each exactly once: append the input summary to the panel, set the status to
\* 'Procesando...', invoke intentar_procesamiento, append the text it returns,
\* set the status to 'Listo.'.  After it the status is 'Listo.' and the panel
\* has grown by exactly the summary followed by the result.
C15_ValidatedCalcularSteps ==
    (evento = "on_calcular" /\ Validado) =>
        LET n  == Len(antes.txt_salida)
            m1 == float(replace_comma(strip(var_masa1))).val
            m2 == float(replace_comma(strip(var_masa2))).val
            c1 == strip(var_comp1)
            c2 == strip(var_comp2)
        IN  /\ traza = PasosAppend \o <<"status=Procesando...", "intentar_procesamiento">>
                          \o PasosAppend \o <<"status=Listo.">>
            /\ var_status = "Listo."
            /\ dialogo = NoDialog
            /\ Len(txt_salida) = n + 2
            /\ SubSeq(txt_salida, 1, n) = antes.txt_salida
            /\ txt_salida[n + 1] =
                   Bloque("CALCULOS ESTEQUIOMETRICOS", strip(var_nombre), c1, c2,
                          <<fmt6g(m1), fmt6g(m2)>>, NoMsg, 1)
            /\ txt_salida[n + 2] =
                   [intentar_procesamiento(c1, m1, c2, m2, disponible) EXCEPT !.nl = 1]
            /\ invocaciones =
                   Append(antes.invocaciones,
                          [comp1 |-> c1, masa1 |-> m1, comp2 |-> c2, masa2 |-> m2])

\* Witness of C15: with text already in the panel and a status other than
\* 'Listo.', a Calcular action with a name, two formulas and two numeric masses
\* appended a greeting summary and a provisional result.
C15_Witness ==
    /\ evento = "on_calcular" /\ Validado
    /\ Len(antes.txt_salida) > 0
    /\ antes.var_status = "Campos limpios."
    /\ var_status = "Listo."
    /\ strip(var_nombre) # <<>>
    /\ Len(txt_salida) = Len(antes.txt_salida) + 2
    /\ txt_salida[Len(txt_salida) - 1].saludo = strip(var_nombre)
    /\ txt_salida[Len(txt_salida)].tipo = "RESULTADO (provisional)"

\* The step is an on_limpiar with the effect the handler has on the widgets.
LimpiarEffect ==
    /\ var_comp1' = <<>> /\ var_masa1' = <<>>
    /\ var_comp2' = <<>> /\ var_masa2' = <<>>
    /\ txt_salida' = Append(txt_salida,
                            Bloque("Campos limpiados", <<>>, <<>>, <<>>, <<>>, NoMsg, 1))
    /\ var_status' = "Campos limpios."
    /\ var_nombre' = var_nombre

\* The step is a Calcular rejected as incomplete.
RejectedAsIncomplete ==
    /\ dialogo'.tipo = "showwarning"
    /\ dialogo'.titulo = "Datos incompletos"
    /\ txt_salida' = txt_salida
    /\ var_status' = var_status
    /\ invocaciones' = invocaciones

FormulasValidas == {t \in TextosComp1 \cup TextosComp2 : strip(t) # <<>>}
MasasValidas ==
    {t \in TextosMasa1 \cup TextosMasa2 \cup TextosNumero :
        float(replace_comma(strip(t))).ok}

\* The user types in the next empty field, where the window has an Entry for it.
Rellenar ==
    /\ ventana = "abierta"
    /\ TieneEntradas(app)
    /\ \/ /\ var_comp1 = <<>>
          /\ \E t \in FormulasValidas :
                Handled("escribir", [Form EXCEPT !.var_comp1 = t, !.dialogo = NoDialog])
       \/ /\ var_comp1 # <<>> /\ var_masa1 = <<>>
          /\ \E t \in MasasValidas :
                Handled("escribir", [Form EXCEPT !.var_masa1 = t, !.dialogo = NoDialog])
       \/ /\ var_masa1 # <<>> /\ var_comp2 = <<>>
          /\ \E t \in FormulasValidas :
                Handled("escribir", [Form EXCEPT !.var_comp2 = t, !.dialogo = NoDialog])
       \/ /\ var_comp2 # <<>> /\ var_masa2 = <<>>
          /\ \E t \in MasasValidas :
                Handled("escribir", [Form EXCEPT !.var_masa2 = t, !.dialogo = NoDialog])

NextUsuario == Rellenar \/ OnCalcular

SpecUsuario == InitForm /\ [][NextUsuario]_vars

\* C12: in each variant of the form, the user who fills both formulas and both
\* masses in the form's input widgets and triggers Calcular reaches an
\* invocation of intentar_procesamiento: once the user has typed in every field
\* the window lets them type in and has triggered Calcular, the calculator has
\* been invoked.
C12_CalculatorReachable ==
    (ventana = "abierta" /\ evento = "on_calcular" /\ ~ENABLED Rellenar)
        => invocaciones # <<>>

\* Witness of C12: in estequiometria_explica.py the four fields were typed in
\* and Calcular invoked intentar_procesamiento with their values.
C12_Witness ==
    /\ app = "estequiometria_explica"
    /\ evento = "on_calcular"
    /\ Len(invocaciones) = 1
    /\ invocaciones[1].comp1 = strip(var_comp1)
    /\ invocaciones[1].comp2 = strip(var_comp2)

\* ------------------------------------------------- claims on the balancing

\* c gives every compound of R and P a positive integer, conserves the atoms
\* of every element between the two sides, and has greatest common divisor 1.
BalancedCoefs(R, P, c) ==
    /\ DOMAIN c = R \cup P
    /\ \A f \in R \cup P : c[f] \in Nat \ {0}
    /\ \A e \in Elements :
          SumOver(R, [f \in R |-> c[f] * AtomsOf(f)[e]])
            = SumOver(P, [f \in P |-> c[f] * AtomsOf(f)[e]])
    /\ GCDSet(R \cup P, c) = 1

\* The two sides of the reaction typed at calcular's prompt.
LadosDe(reaccion) ==
    LET lados == split(reaccion, Arrow)
    IN  [R |-> ToSet(split(lados[1], Plus)), P |-> ToSet(split(lados[2], Plus))]

MismasClaves(data) ==
    { [data EXCEPT !.reactivos = cr, !.productos = cp] :
        cr \in [DOMAIN data.reactivos -> CoefDados],
        cp \in [DOMAIN data.productos -> CoefDados] }

\* C18: the response of the HTTP handler does not depend on the coefficient
\* values of the request: two requests that agree on the keys of reactivos and
\* productos, on masa_dada, compuesto_dado and compuesto_objetivo, and differ in
\* the coefficient values, get identical responses.
C18_CoefficientsIgnored ==
    IsHttp =>
        \A otra \in MismasClaves(input) :
            LET o == calcular_estequiometria(otra)
            IN  o.raised = out.raised /\ o.ret = out.ret

\* Witness of C18: a request whose coefficients differ from the balanced ones
\* got a conversion between two different compounds, computed with the
\* balanced coefficients.
C18_Witness ==
    /\ IsHttp /\ Succeeded(out)
    /\ input.compuesto_dado # input.compuesto_objetivo
    /\ \E otra \in MismasClaves(input) : otra # input
    /\ \E f \in DOMAIN input.reactivos :
          input.reactivos[f] # out.ret.ecuacion_balanceada.reactivos[f]
    /\ \E f \in DOMAIN input.productos :
          input.productos[f] # out.ret.ecuacion_balanceada.productos[f]
    /\ out.ret.masa_objetivo.n > 0

\* -------------------------- main.py: invocations of the handler in threads

\* Threads of the server's pool that run the handler at the same time.
MaxHilos == 2

Hilos == 1..MaxHilos

\* Requests the concurrent clients post.
Peticion(R, P, m, a, b) ==
    [reactivos |-> [f \in R |-> 1], productos |-> [f \in P |-> 1],
     masa_dada |-> m, compuesto_dado |-> a, compuesto_objetivo |-> b]

Peticiones ==
    { Peticion({tH2, tO2}, {tH2O}, RInt(4), tH2, tO2),
      Peticion({tN2, tH2}, {tNH3}, Rat(9, 2), tN2, tNH3),
      Peticion({tH2, tO2}, {tH2O}, RInt(4), tH2, tCO2) }

\* A thread with no request, and a thread entering the handler with data.
\* solo is what the handler returns for data when it runs alone; conc tells
\* whether the thread took a step while another invocation was in flight.
HiloLibre ==
    [pc |-> "libre", data |-> <<>>, solo |-> <<>>, conc |-> FALSE,
     reac |-> <<>>, prod |-> <<>>, masas |-> <<>>, moles_dado |-> <<>>,
     coef_dado |-> <<>>, coef_objetivo |-> <<>>, moles_objetivo |-> <<>>,
     masa_objetivo |-> <<>>, exc |-> <<>>, res |-> <<>>]

\* What the handler returns for each request when it runs alone.
Solo == [data \in Peticiones |-> calcular_estequiometria(data).ret]

hilo_entra(hs, h, data) ==
    [hs EXCEPT ![h] = [HiloLibre EXCEPT !.pc = "balanceo", !.data = data,
                                        !.solo = Solo[data]]]

\* reac, prod = balance_stoichiometry(...)
hilo_balanceo(hs, h) ==
    LET bal == http_balanceo(hs[h].data)
    IN  IF bal.ok
        THEN [hs EXCEPT ![h].reac = bal.reac, ![h].prod = bal.prod, ![h].pc = "masas"]
        ELSE [hs EXCEPT ![h].exc = bal.exc, ![h].pc = "except"]

\* The masas dict of every invocation holding the entries of the others too.
hilo_masas_global(hs, h) ==
    LET otros == {g \in DOMAIN hs : g # h /\ hs[g].masas # <<>>}
        propias == http_masas(hs[h].reac, hs[h].prod)
        claves == DOMAIN propias \cup UNION {DOMAIN hs[g].masas : g \in otros}
    IN  [hs EXCEPT ![h].pc = "moles_dado",
                   ![h].masas = [c \in claves |-> Substance_from_formula(c).mass]]

\* masas = {}; for compuesto in ...: masas[compuesto] = ...
hilo_masas(hs, h) ==
    [hs EXCEPT ![h].masas = http_masas(hs[h].reac, hs[h].prod), ![h].pc = "moles_dado"]

\* moles_dado = data.masa_dada / masas[data.compuesto_dado]
hilo_moles_dado(hs, h) ==
    LET md == http_moles_dado(hs[h].data, hs[h].masas)
    IN  IF md.ok
        THEN [hs EXCEPT ![h].moles_dado = md.val, ![h].pc = "coef"]
        ELSE [hs EXCEPT ![h].exc = md.exc, ![h].pc = "except"]

\* coef_dado = ...; coef_objetivo = ...
hilo_coef(hs, h) ==
    [hs EXCEPT
       ![h].coef_dado = http_coef(hs[h].reac, hs[h].prod, hs[h].data.compuesto_dado),
       ![h].coef_objetivo = http_coef(hs[h].reac, hs[h].prod, hs[h].data.compuesto_objetivo),
       ![h].pc = "moles_objetivo"]

\* moles_objetivo = moles_dado * (coef_objetivo / coef_dado)
hilo_moles_objetivo(hs, h) ==
    LET mo == http_moles_objetivo(hs[h].moles_dado, hs[h].coef_objetivo, hs[h].coef_dado)
    IN  IF mo.ok
        THEN [hs EXCEPT ![h].moles_objetivo = mo.val, ![h].pc = "masa_objetivo"]
        ELSE [hs EXCEPT ![h].exc = mo.exc, ![h].pc = "except"]

\* masa_objetivo = moles_objetivo * masas[data.compuesto_objetivo]
hilo_masa_objetivo(hs, h) ==
    [hs EXCEPT ![h].masa_objetivo =
                   http_masa_objetivo(hs[h].moles_objetivo, hs[h].masas, hs[h].data),
               ![h].pc = "return"]

\* return {...}
hilo_return(hs, h) ==
    [hs EXCEPT ![h].res = http_respuesta(hs[h].moles_objetivo, hs[h].masa_objetivo,
                                         hs[h].masas, hs[h].reac, hs[h].prod),
               ![h].pc = "fin"]

\* except Exception as e: return {"error": str(e)}
hilo_except(hs, h) ==
    [hs EXCEPT ![h].res = http_except(Raised(hs[h].exc, NoLocals, <<>>, hs[h].data)).ret,
               ![h].pc = "fin"]

EnVuelo(t) == t.pc \notin {"libre", "fin"}

\* Thread h has taken the step that leads to hs.
Paso(h, hs) ==
    /\ hilos' = [hs EXCEPT ![h].conc = @ \/ \E g \in Hilos \ {h} : EnVuelo(hilos[g])]
    /\ UNCHANGED <<callVars, consoleVars, formVars>>

InitHilos ==
    /\ fn = ""
    /\ input = <<>>
    /\ out = Returned(<<>>, NoLocals, <<>>, <<>>)
    /\ prev = NoCall
    /\ chain = 0
    /\ cpc = "off"
    /\ decicion = <<>>
    /\ nombre = <<>>
    /\ FormOff
    /\ hilos = [h \in Hilos |-> HiloLibre]

HiloEntra ==
    \E h \in Hilos, data \in Peticiones :
        hilos[h].pc = "libre" /\ Paso(h, hilo_entra(hilos, h, data))

HiloBalanceo ==
    \E h \in Hilos : hilos[h].pc = "balanceo" /\ Paso(h, hilo_balanceo(hilos, h))

HiloMasas ==
    \E h \in Hilos : hilos[h].pc = "masas" /\ Paso(h, hilo_masas(hilos, h))

HiloMolesDado ==
    \E h \in Hilos : hilos[h].pc = "moles_dado" /\ Paso(h, hilo_moles_dado(hilos, h))

HiloCoef ==
    \E h \in Hilos : hilos[h].pc = "coef" /\ Paso(h, hilo_coef(hilos, h))

HiloMolesObjetivo ==
    \E h \in Hilos :
        hilos[h].pc = "moles_objetivo" /\ Paso(h, hilo_moles_objetivo(hilos, h))

HiloMasaObjetivo ==
    \E h \in Hilos :
        hilos[h].pc = "masa_objetivo" /\ Paso(h, hilo_masa_objetivo(hilos, h))

HiloReturn ==
    \E h \in Hilos : hilos[h].pc = "return" /\ Paso(h, hilo_return(hilos, h))

HiloExcept ==
    \E h \in Hilos : hilos[h].pc = "except" /\ Paso(h, hilo_except(hilos, h))

NextHilos ==
    \/ HiloEntra \/ HiloBalanceo \/ HiloMasas \/ HiloMolesDado \/ HiloCoef
    \/ HiloMolesObjetivo \/ HiloMasaObjetivo \/ HiloReturn \/ HiloExcept

SpecHilos == InitHilos /\ [][NextHilos]_vars

\* C14: invocations of calcular_estequiometria that run at the same time do
\* not interfere: under every interleaving of their statements each one
\* returns exactly what it returns when it runs alone.
C14_NoInterference ==
    \A h \in Hilos : hilos[h].pc = "fin" => hilos[h].res = hilos[h].solo

\* Witness of C14: two invocations with different requests, each of which ran
\* statements while the other was in flight, have returned different results:
\* a conversion and an error.
C14_Witness ==
    \E g, h \in Hilos :
        /\ hilos[g].pc = "fin" /\ hilos[h].pc = "fin"
        /\ hilos[g].conc /\ hilos[h].conc
        /\ hilos[g].data # hilos[h].data
        /\ DOMAIN hilos[g].res = {"error"}
        /\ "masa_objetivo" \in DOMAIN hilos[h].res
        /\ hilos[h].res = hilos[h].solo

\* -------------------------------- intentar_procesamiento called on its own

\* Formulas and masses it is called with: the empty formula, formulas that
\* resolve, one that does not parse; a zero, a negative and a positive mass.
FormulasProcesamiento == {tVacio, tH2, tO2, tH2O, tXx}
MasasProcesamiento == {RInt(0), Rat(-5, 2), RInt(4)}

\* One call of intentar_procesamiento; importable tells whether periodictable
\* is installed where it runs.
IntentarCall ==
    \E comp1 \in FormulasProcesamiento, comp2 \in FormulasProcesamiento,
       masa1 \in MasasProcesamiento, masa2 \in MasasProcesamiento,
       importable \in BOOLEAN :
        LET data == [comp1 |-> comp1, masa1 |-> masa1, comp2 |-> comp2,
                     masa2 |-> masa2, importable |-> importable]
        IN  /\ fn' = "intentar_procesamiento"
            /\ input' = data
            /\ out' = Returned(intentar_procesamiento(comp1, masa1, comp2, masa2,
                                                      importable),
                               NoLocals, <<>>, data)
            /\ UNCHANGED <<prev, chain, consoleVars, formVars, hilos>>

SpecProcesamiento == Init /\ [][IntentarCall]_vars

\* Both formulas resolve to a molar mass and both molar masses are positive.
MolarMassesPositive(comp1, comp2) ==
    /\ periodictable_mass(comp1).ok /\ RPos(periodictable_mass(comp1).mass)
    /\ periodictable_mass(comp2).ok /\ RPos(periodictable_mass(comp2).mass)

\* C17: intentar_procesamiento never raises, for any formulas and any numeric
\* masses, zero and negative ones included: when periodictable cannot be
\* imported it returns the 'Procesamiento en revision' notice; when both molar
\* masses resolve and are positive it returns the provisional result, with
\* moles = mass / molar mass for each reactant; otherwise it returns a text
\* that starts with 'Ocurrio un problema durante el calculo provisional'.
C17_ProcesamientoTotal ==
    fn = "intentar_procesamiento" =>
        /\ ~out.raised
        /\ "tipo" \in DOMAIN out.ret
        /\ IF ~input.importable
           THEN out.ret.tipo = "Procesamiento en revision"
           ELSE IF MolarMassesPositive(input.comp1, input.comp2)
           THEN /\ out.ret.tipo = "RESULTADO (provisional)"
                /\ out.ret.comp1 = input.comp1 /\ out.ret.comp2 = input.comp2
                /\ out.ret.nums[1] = fmt6g(input.masa1)
                /\ out.ret.nums[3] =
                      fmt6g(RDiv(input.masa1, periodictable_mass(input.comp1).mass))
                /\ out.ret.nums[4] = fmt6g(input.masa2)
                /\ out.ret.nums[6] =
                      fmt6g(RDiv(input.masa2, periodictable_mass(input.comp2).mass))
           ELSE /\ out.ret.tipo = "Ocurrio un problema durante el calculo provisional"
                /\ out.ret.msg # NoMsg

\* Witness of C17: with periodictable installed, a call with a zero mass of H2
\* and a negative mass of O2 returned the provisional result with zero and
\* negative moles.
C17_Witness ==
    /\ fn = "intentar_procesamiento" /\ ~out.raised
    /\ input.importable
    /\ input.comp1 = tH2 /\ input.masa1 = RInt(0)
    /\ input.comp2 = tO2 /\ input.masa2 = Rat(-5, 2)
    /\ out.ret.tipo = "RESULTADO (provisional)"
    /\ out.ret.nums[3] = RInt(0)
    /\ out.ret.nums[6].n < 0

====
